---- MODULE Spec2Model ----
(***************************************************************************)
(* Model of the Sunpura EMS integration (custom_components/ha_ems):        *)
(*   - hub.py: the cached device record, push_schedule and the write path  *)
(*     set_ai_system_times_with_energy_mode, with its callers (switch.py,  *)
(*     number.py, select.py, __init__.py services) and the slow            *)
(*     coordinator refresh (coordinator.py);                                *)
(*   - optimizer.py: BatteryOptimizer.optimize and its helpers.            *)
(*                                                                         *)
(* Representation.  A Python dict is a function whose DOMAIN is its key    *)
(* set.  Every scalar stored in a device record is represented by its      *)
(* text (the integer 2 by "2"), Python's None by the reserved text None.   *)
(* Prices are integers in units of 0.001 EUR/kWh, energies in Wh.          *)
(***************************************************************************)
EXTENDS Integers, Sequences, FiniteSets, TLC

VARIABLES
  main_control_device_id, \* hub.main_control_device_id
  cache,                  \* hub.data["ai_system_times_with_energy_mode"]
  coordinator_data,       \* slow coordinator's data["ai_settings"]
  cloud,                  \* the device record stored by the vendor cloud
  inflight,               \* write requests sent and not yet answered
  writes,                 \* number of write requests issued so far
  last_call,              \* arguments, locals and return of the latest push_schedule
  prev_call,              \* the same for the push_schedule call before it
  interleaved,            \* another handler ran since the latest push_schedule
  in_succession,          \* the latest push_schedule directly followed the one before
  ncalls,                 \* handler invocations so far
  hass,                   \* Home Assistant states read by the optimizer
  opt,                    \* locals and return value of the latest optimize()
  args,                   \* arguments of the helper function being applied
  ret,                    \* that function's return value
  tcp,                    \* the local TCP layer: manager, clients, exchanges
  entity                  \* an AI-setting entity and what its reads reported

vars == <<main_control_device_id, cache, coordinator_data, cloud, inflight, writes,
          last_call, prev_call, interleaved, in_succession, ncalls, hass, opt,
          args, ret, tcp, entity>>

hubVars == <<main_control_device_id, cache, coordinator_data, cloud, inflight, writes,
             last_call, prev_call, interleaved, in_succession, ncalls>>

(***************************************************************************)
(* Bounds of the model                                                     *)
(***************************************************************************)
MaxCalls == 2       \* handler invocations explored per behaviour
MaxSlotsIn == 17    \* longest slot list handed to push_schedule

(***************************************************************************)
(* Python values                                                           *)
(***************************************************************************)
None == "None"

EmptyDict == [k \in {} |-> None]

\* dict.get(k, default)
Get(d, k, default) == IF k \in DOMAIN d THEN d[k] ELSE default

\* d.update(e) / for k, v in e.items(): d[k] = v
Update(d, e) ==
  [k \in DOMAIN d \cup DOMAIN e |-> IF k \in DOMAIN e THEN e[k] ELSE d[k]]

Max(a, b) == IF a >= b THEN a ELSE b
Min(a, b) == IF a <= b THEN a ELSE b
Abs(a) == IF a < 0 THEN -a ELSE a

\* int(v) succeeds: v is the text of a number (the device's power settings
\* range over 0..2400 W); it raises TypeError for None and ValueError for
\* any other text.
IsInt(v) == \E n \in 0..2400 : ToString(n) = v

IntOf(v) == CHOOSE n \in 0..2400 : ToString(n) = v

(***************************************************************************)
(* hub.py: slot helpers                                                    *)
(***************************************************************************)
_EMPTY_SLOT == "0,00:00,00:00,0,0,0,0,0,0,100,10"

_READONLY_FIELDS ==
  {"id", "sn", "createTime", "updateTime", "currentPower", "currentWorkMode",
   "modeStr", "aiActiveTime", "priceType", "smartModeLimitFlag"}

\* f"controlTime{i}"
ControlTime(i) == "controlTime" \o ToString(i)

\* k.startswith("controlTime"), over the keys a device record carries:
\* controlTime1..controlTime96
ControlTimeKeys == {ControlTime(i) : i \in 1..96}

StartsWithControlTime(k) == k \in ControlTimeKeys

\* the 16 slot fields of a write, and the position each one names
SlotKeys == {ControlTime(i) : i \in 1..16}

SlotIndex == [k \in SlotKeys |-> CHOOSE i \in 1..16 : ControlTime(i) = k]

\* f"{h:02d}:{m:02d}"
_quarter_to_str(h, m) ==
  (IF h < 10 THEN "0" ELSE "") \o ToString(h) \o ":" \o
  (IF m < 10 THEN "0" ELSE "") \o ToString(m)

_slot_to_str_Swapped(slot) ==
  LET enabled == IF Get(slot, "enabled", TRUE) THEN 1 ELSE 0
  IN ToString(enabled) \o "," \o Get(slot, "end", "00:00") \o ","
       \o Get(slot, "start", "00:00") \o "," \o ToString(Get(slot, "power_w", 0))
       \o ",0,6,0,0,0," \o ToString(Get(slot, "max_soc", 100)) \o ","
       \o ToString(Get(slot, "min_soc", 10))

_slot_to_str(slot) ==
  LET enabled == IF Get(slot, "enabled", TRUE) THEN 1 ELSE 0
      start   == Get(slot, "start", "00:00")
      end     == Get(slot, "end", "00:00")
      power_w == Get(slot, "power_w", 0)
      max_soc == Get(slot, "max_soc", 100)
      min_soc == Get(slot, "min_soc", 10)
  IN ToString(enabled) \o "," \o start \o "," \o end \o "," \o ToString(power_w)
       \o ",0,6,0,0,0," \o ToString(max_soc) \o "," \o ToString(min_soc)

(***************************************************************************)
(* hub.py: the cached response of getAiSystemTimesWithEnergyMode.          *)
(* kind "None"  : Python None (the API wrapper swallowed an exception)     *)
(* kind "empty" : {} (HTTP error or exception in ApiClient.post)           *)
(* kind "noobj" : a non-empty dict whose "obj" is missing, null or empty   *)
(* kind "obj"   : a dict whose "obj" is the non-empty device record        *)
(***************************************************************************)
Response(kind, obj) == [kind |-> kind, obj |-> obj]

\* (resp or {}).get("obj") or {}
ObjOf(resp) == IF resp.kind = "obj" THEN resp.obj ELSE EmptyDict

\* clean = {k: v for k, v in data.items() if k not in _READONLY_FIELDS and v is not None}
Clean_KeepReadonly(data) ==
  [k \in {x \in DOMAIN data : data[x] # None} |-> data[k]]

Clean(data) ==
  [k \in {x \in DOMAIN data : x \notin _READONLY_FIELDS /\ data[x] # None} |-> data[k]]

\* The optimistic cache update of set_ai_system_times_with_energy_mode after
\* result 0.  `cached = self.data.get(...) or {}` is a fresh dict when the
\* cache is None or {}, and the update is then made on that fresh dict and
\* lost; otherwise the cached response is updated in place.
CacheAfterWrite_Invalidate(resp, clean) == Response("empty", EmptyDict)

CacheAfterWrite(resp, clean) ==
  IF resp.kind \in {"None", "empty"}
  THEN resp
  ELSE LET obj == Update(ObjOf(resp), clean)
       IN  Response(IF obj = EmptyDict THEN "noobj" ELSE "obj", obj)

(***************************************************************************)
(* hub.py: push_schedule, lines 273-312                                    *)
(***************************************************************************)
\* if isinstance(slots, dict): slots = list(slots.values())
\* slots = list(slots) if slots else []
NormalizeSlots(arg) ==
  IF arg.kind = "dict" THEN [i \in 1..Len(arg.items) |-> arg.items[i][2]]
  ELSE IF arg.kind = "list" THEN arg.items
  ELSE <<>>

\* the loop over cached_obj.items(), lines 289-297
PayloadBase_DropFalsy(cached_obj) ==
  [k \in {x \in DOMAIN cached_obj :
            /\ x \notin _READONLY_FIELDS
            /\ cached_obj[x] \notin {None, "0", ""}
            /\ ~StartsWithControlTime(x)} |-> cached_obj[k]]

PayloadBase(cached_obj) ==
  [k \in {x \in DOMAIN cached_obj :
            /\ x \notin _READONLY_FIELDS
            /\ cached_obj[x] # None
            /\ ~StartsWithControlTime(x)} |-> cached_obj[k]]

\* payload["energyMode"] = 2; payload["datalogSn"] = self.main_control_device_id
ScheduleFields(device_id) == [energyMode |-> "2", datalogSn |-> device_id]

\* active = slots[:16]
ActiveSlots(slots) == SubSeq(slots, 1, Min(Len(slots), 16))

\* the two loops that set controlTime1..controlTime16, lines 305-312
SlotFields_OnlyActive(active) ==
  [k \in {x \in SlotKeys : SlotIndex[x] <= Len(active)} |->
     _slot_to_str(active[SlotIndex[k]])]

SlotFields(active) ==
  [k \in SlotKeys |->
     IF SlotIndex[k] <= Len(active) THEN _slot_to_str(active[SlotIndex[k]])
     ELSE _EMPTY_SLOT]

\* the payload as it stands at line 312
BuildPayload(cached_obj, device_id, slots) ==
  Update(Update(PayloadBase(cached_obj), ScheduleFields(device_id)),
         SlotFields(ActiveSlots(slots)))

(***************************************************************************)
(* optimizer.py: quarter-hour helpers                                      *)
(***************************************************************************)
_DEFAULT_MAX_CHARGE_W == 2400
_DEFAULT_MAX_DISCHARGE_W == 2400

\* _next_quarter(h, m), lines 36-42
_next_quarter(h, m) ==
  IF m + 15 >= 60 THEN <<(h + 1) % 24, m + 15 - 60>> ELSE <<h, m + 15>>

\* the 96 quarter-hours of a day in ascending (h, m) order
Grid == [i \in 1..96 |-> <<(i - 1) \div 4, 15 * ((i - 1) % 4)>>]

\* sorted(S) for a set S of (h, m) tuples on the 15-minute grid
Sorted(S) == SelectSeq(Grid, LAMBDA q : q \in S)

Range(seq) == {seq[i] : i \in 1..Len(seq)}

\* _group_consecutive_quarters, lines 60-76: the loop over quarters[1:],
\* `groups` and `current` being its two accumulators
RECURSIVE GroupLoop(_, _, _, _)
GroupLoop(quarters, i, groups, current) ==
  IF i > Len(quarters) THEN Append(groups, current)
  ELSE LET q        == quarters[i]
           last     == current[Len(current)]
           expected == _next_quarter(last[1], last[2])
       IN  IF q = expected
           THEN GroupLoop(quarters, i + 1, groups, Append(current, q))
           ELSE GroupLoop(quarters, i + 1, Append(groups, current), <<q>>)

_group_consecutive_quarters(quarters) ==
  IF quarters = <<>> THEN <<>>
  ELSE GroupLoop(quarters, 2, <<>>, <<quarters[1]>>)

\* int(slot["start"][:2]), int(slot["start"][3:]) for an HH:MM text
TimeOf ==
  [t \in {_quarter_to_str(Grid[i][1], Grid[i][2]) : i \in 1..96} |->
     CHOOSE q \in Range(Grid) : _quarter_to_str(q[1], q[2]) = t]

\* _quarter_in_slot, lines 489-501
_quarter_in_slot(quarter, slot) ==
  LET qmins == quarter[1] * 60 + quarter[2]
      smins == TimeOf[slot.start][1] * 60 + TimeOf[slot.start][2]
      emins == TimeOf[slot.end][1] * 60 + TimeOf[slot.end][2]
  IN  IF smins <= emins THEN smins <= qmins /\ qmins < emins
      ELSE qmins >= smins \/ qmins < emins

(***************************************************************************)
(* optimizer.py: hub power limits, lines 122-138                           *)
(***************************************************************************)
_max_charge_w(resp) ==
  IF "maxChargePower" \in DOMAIN ObjOf(resp) /\ IsInt(ObjOf(resp)["maxChargePower"])
  THEN IntOf(ObjOf(resp)["maxChargePower"])
  ELSE _DEFAULT_MAX_CHARGE_W

_max_discharge_w(resp) ==
  IF "maxFeedPower" \in DOMAIN ObjOf(resp) /\ IsInt(ObjOf(resp)["maxFeedPower"])
  THEN IntOf(ObjOf(resp)["maxFeedPower"])
  ELSE _DEFAULT_MAX_DISCHARGE_W

(***************************************************************************)
(* optimizer.py: optimize, lines 344-486.  h is the record of Home         *)
(* Assistant states and source data the method reads: mode, active,        *)
(* reserve_soc, ev_reserve_soc, high_price, low_price, current_soc,        *)
(* ev_charging, prices (the result of _get_prices), solar (hour -> Wh),    *)
(* consumption (24 values, Wh per hour).                                   *)
(***************************************************************************)
\* line 353
Disabled(h) == h.active # "on" \/ h.mode = "Uit"

\* line 380
effective_reserve_NoEv(h) == h.reserve_soc

effective_reserve(h) ==
  h.reserve_soc + (IF h.ev_charging THEN h.ev_reserve_soc ELSE 0)

\* line 403, times 4000: max(0, solar/4 - consumption/4) in kWh is below
\* 0.025 (0.125) exactly when max(0, solar - consumption) in Wh is below
\* 100 (500)
NetSolar(h, hour) == Max(0, Get(h.solar, hour, 0) - h.consumption[hour + 1])

\* lines 405-419: the class of one (h, m, price) entry
Classify(h, entry) ==
  LET price     == entry[3]
      net_solar == NetSolar(h, entry[1])
  IN  IF h.mode = "Prijs-arbitrage"
      THEN IF price <= h.low_price /\ net_solar < 100 THEN "charge"
           ELSE IF price >= h.high_price THEN "discharge"
           ELSE "idle"
      ELSE IF h.mode = "Zelfverbruik"
      THEN IF price >= h.high_price /\ h.current_soc > effective_reserve(h) + 10
           THEN "discharge" ELSE "idle"
      ELSE IF price <= h.low_price /\ net_solar < 100 THEN "charge"
           ELSE IF price >= h.high_price /\ net_solar < 500 THEN "discharge"
           ELSE "idle"

\* the lists charge_quarters / discharge_quarters at line 420
Classified(h, class) ==
  LET hits == SelectSeq(h.prices, LAMBDA e : Classify(h, e) = class)
  IN  [i \in 1..Len(hits) |-> <<hits[i][1], hits[i][2]>>]

\* line 422: sorted(set(charge_quarters))
ChargeQuarters(raw_charge) == Sorted(Range(raw_charge))

\* lines 423-424: sorted(set(discharge_quarters) - set(charge_quarters))
DischargeQuarters_NoDedup(raw_discharge, charge_quarters) ==
  Sorted(Range(raw_discharge))

DischargeQuarters(raw_discharge, charge_quarters) ==
  Sorted(Range(raw_discharge) \ Range(charge_quarters))

\* the slot dict appended for one run, lines 432-440 / 445-453 / 467-475
RunSlot(group, power_w, max_soc, min_soc) ==
  LET last == group[Len(group)]
      end  == _next_quarter(last[1], last[2])
  IN  [enabled |-> TRUE,
       start   |-> _quarter_to_str(group[1][1], group[1][2]),
       end     |-> _quarter_to_str(end[1], end[2]),
       power_w |-> power_w,
       max_soc |-> max_soc,
       min_soc |-> min_soc]

\* the cap of the charge and discharge loops, lines 430 and 443
RunCap_None == Len(Grid)

RunCap == 14

\* the cap of the EV loop, lines 456 and 463
EvCap_Sixteen == RunCap + 2

EvCap == 15

\* the loops of lines 429-440 and 442-453: append one slot per run until
\* RunCap slots exist
RECURSIVE AppendRuns(_, _, _, _, _, _)
AppendRuns(slots, groups, i, power_w, max_soc, min_soc) ==
  IF i > Len(groups) \/ Len(slots) >= RunCap THEN slots
  ELSE AppendRuns(Append(slots, RunSlot(groups[i], power_w, max_soc, min_soc)),
                  groups, i + 1, power_w, max_soc, min_soc)

\* lines 437-439
ChargePower(max_charge_w) == -max_charge_w

\* lines 450-452
DischargePower_Swapped(max_charge_w, max_discharge_w) == max_charge_w

DischargePower(max_charge_w, max_discharge_w) == max_discharge_w

\* line 472
EvPower(max_charge_w) == -(max_charge_w \div 2)

\* lines 457-461: the 12 cheapest night entries in the order of a stable
\* sort by price, as a sorted list of distinct quarters
EvQuarters(prices) ==
  LET night == SelectSeq(prices, LAMBDA e : e[1] >= 22 \/ e[1] < 6)
      rank(i) == Cardinality({j \in 1..Len(night) :
                                \/ night[j][3] < night[i][3]
                                \/ night[j][3] = night[i][3] /\ j < i})
  IN  Sorted({<<night[i][1], night[i][2]>> : i \in {j \in 1..Len(night) : rank(j) < 12}})

\* line 465
CoveredByCharge(group, slots) ==
  \E i \in 1..Len(slots) : slots[i].power_w < 0 /\ _quarter_in_slot(group[1], slots[i])

\* the loop of lines 462-475
RECURSIVE AppendEv(_, _, _, _, _, _)
AppendEv(slots, groups, i, power_w, max_soc, min_soc) ==
  IF i > Len(groups) \/ Len(slots) >= EvCap THEN slots
  ELSE IF CoveredByCharge(groups[i], slots)
  THEN AppendEv(slots, groups, i + 1, power_w, max_soc, min_soc)
  ELSE AppendEv(Append(slots, RunSlot(groups[i], power_w, max_soc, min_soc)),
                groups, i + 1, power_w, max_soc, min_soc)

\* the locals and the return value of one optimize() call (n_charge and
\* n_discharge: the number of slots the first and the second loop appended)
NotRun ==
  [done |-> FALSE, read_inputs |-> FALSE, raw_charge |-> <<>>, raw_discharge |-> <<>>,
   charge_quarters |-> <<>>, discharge_quarters |-> <<>>,
   n_charge |-> 0, n_discharge |-> 0, slots |-> <<>>]

optimize(h, resp) ==
  IF Disabled(h) THEN [NotRun EXCEPT !.done = TRUE]
  ELSE
    LET max_charge_w    == _max_charge_w(resp)
        max_discharge_w == _max_discharge_w(resp)
        raw_charge      == Classified(h, "charge")
        raw_discharge   == Classified(h, "discharge")
        charge_quarters == ChargeQuarters(raw_charge)
        discharge_quarters == DischargeQuarters(raw_discharge, charge_quarters)
        s1 == AppendRuns(<<>>, _group_consecutive_quarters(charge_quarters), 1,
                         ChargePower(max_charge_w), 95, effective_reserve(h))
        s2 == AppendRuns(s1, _group_consecutive_quarters(discharge_quarters), 1,
                         DischargePower(max_charge_w, max_discharge_w), 100,
                         effective_reserve(h))
        s3 == IF h.ev_charging /\ Len(s2) < EvCap
              THEN AppendEv(s2, _group_consecutive_quarters(EvQuarters(h.prices)), 1,
                            EvPower(max_charge_w),
                            Min(95, h.reserve_soc + h.ev_reserve_soc + 15),
                            h.reserve_soc)
              ELSE s2
    IN  [done |-> TRUE, read_inputs |-> TRUE,
         raw_charge |-> raw_charge, raw_discharge |-> raw_discharge,
         charge_quarters |-> charge_quarters,
         discharge_quarters |-> discharge_quarters,
         n_charge |-> Len(s1), n_discharge |-> Len(s2) - Len(s1), slots |-> s3]

(***************************************************************************)
(* Inputs: slot lists handed to push_schedule                              *)
(***************************************************************************)
SlotAt(i) ==
  [enabled |-> TRUE,
   start   |-> _quarter_to_str(i, 0),
   end     |-> _quarter_to_str(i, 30),
   power_w |-> IF i % 2 = 1 THEN -(100 * i) ELSE 100 * i,
   max_soc |-> 95,
   min_soc |-> 15]

PartialSlot == [start |-> "06:00", power_w |-> -500]

DisabledSlot ==
  [enabled |-> FALSE, start |-> "07:00", end |-> "08:00",
   power_w |-> 0, max_soc |-> 100, min_soc |-> 10]

\* a slot whose min_soc exceeds its max_soc and whose power exceeds every limit
InvalidSlot ==
  [enabled |-> TRUE, start |-> "10:00", end |-> "11:00",
   power_w |-> -5000, max_soc |-> 20, min_soc |-> 80]

ListArg(items) == [kind |-> "list", items |-> items]
DictArg(items) == [kind |-> "dict", items |-> items]
NoneArg == [kind |-> "None", items |-> <<>>]

SlotArgs ==
  {ListArg([i \in 1..n |-> SlotAt(i)]) : n \in {0, MaxSlotsIn}}
    \cup {ListArg(<<PartialSlot, DisabledSlot, SlotAt(3), InvalidSlot>>),
          DictArg([i \in 1..16 |-> <<ToString(i - 1), SlotAt(i)>>])}

(***************************************************************************)
(* Inputs: device records as the cloud returns them                        *)
(***************************************************************************)
DeviceSn == "SN1"

DeviceRecord ==
  Update(
    [id |-> "7", sn |-> DeviceSn, createTime |-> "2026-02-24 10:00:00",
     updateTime |-> "2026-02-24 11:00:00", currentPower |-> "120",
     currentWorkMode |-> "1", modeStr |-> "General", aiActiveTime |-> "5",
     priceType |-> "3", smartModeLimitFlag |-> "0",
     datalogSn |-> DeviceSn, energyMode |-> "0",
     maxChargePower |-> "800", maxFeedPower |-> "600",
     antiRefluxSet |-> "1", ctEnable |-> "0",
     controlTime17 |-> None, controlTime96 |-> None],
    [k \in SlotKeys |->
       IF k = ControlTime(1) THEN "1,01:00,05:00,-800,0,6,0,0,0,95,15"
       ELSE IF k = ControlTime(2) THEN "1,18:00,20:00,600,0,6,0,0,0,100,15"
       ELSE "0,00:00,00:00,0,0,6,0,0,0,100,10"])

Without(d, keys) == [k \in DOMAIN d \ keys |-> d[k]]

InitRecords ==
  {DeviceRecord,
   Update(Without(DeviceRecord, {"energyMode", "datalogSn", "controlTime2"}),
          [maxChargePower |-> None, antiRefluxSet |-> None]),
   Update(Without(DeviceRecord, {"maxChargePower", "id"}),
          [maxFeedPower |-> "abc",
           controlTime17 |-> "1,02:00,03:00,-100,0,6,0,0,0,95,15"])}

\* what a read of the device record can return
ReadResponses(record) ==
  {Response("obj", record), Response("None", EmptyDict),
   Response("empty", EmptyDict), Response("noobj", EmptyDict)}

\* who reads it, and what comes back
Reads(record) ==
  {<<resp, "coordinator">> : resp \in ReadResponses(record)}
    \cup {<<Response("obj", record), "service">>}

\* call.data of service_set_ai_system_times_with_energy_mode
ServiceData ==
  {[datalogSn |-> DeviceSn, energyMode |-> "1", id |-> "7", controlTime1 |-> None,
    maxChargePower |-> "1200"]}

(***************************************************************************)
(* State after async_setup_entry: the device id was looked up and the      *)
(* slow coordinator made its first refresh (which leaves the cache {}      *)
(* when the device id is unknown).                                          *)
(***************************************************************************)
NoCall ==
  [ret |-> "none", slots |-> <<>>, dry_run |-> FALSE,
   cache_before |-> Response("empty", EmptyDict),
   payload |-> EmptyDict, sent |-> EmptyDict, req |-> 0]

\* "ai_settings": self.hub.data.get("ai_system_times_with_energy_mode") or {}
\* is the cached response object itself unless that is None or {}.
CoordinatorView(resp) ==
  [ai_settings |-> IF resp.kind \in {"None", "empty"}
                   THEN Response("empty", EmptyDict) ELSE resp,
   same_object |-> resp.kind \notin {"None", "empty"}]

HubInit ==
  /\ main_control_device_id \in {None, "", DeviceSn}
  /\ cloud \in InitRecords
  /\ IF main_control_device_id = DeviceSn
     THEN \/ cache = Response("obj", cloud)
          \/ /\ cloud = DeviceRecord
             /\ cache \in {Response("empty", EmptyDict), Response("noobj", EmptyDict)}
     ELSE /\ cloud = DeviceRecord
          /\ cache = Response("empty", EmptyDict)
  /\ coordinator_data = CoordinatorView(cache)
  /\ inflight = {}
  /\ writes = 0
  /\ last_call = NoCall
  /\ prev_call = NoCall
  /\ interleaved = FALSE
  /\ in_succession = FALSE
  /\ ncalls = 0

(***************************************************************************)
(* hub.py: set_ai_system_times_with_energy_mode, lines 241-245: the        *)
(* request leaves with the cleaned data; the coroutine then awaits the     *)
(* response (WriteResponse).                                                *)
(***************************************************************************)
Request(caller, data) == [id |-> writes + 1, caller |-> caller, data |-> Clean(data)]

Send(caller, data) ==
  /\ inflight' = inflight \cup {Request(caller, data)}
  /\ writes' = writes + 1

\* line 269: if not self.main_control_device_id
DeviceIdUnknown_OnlyNone(device_id) == device_id = None

DeviceIdUnknown(device_id) == device_id \in {None, ""}

\* line 320: if dry_run: return the payload without calling the API
IssuesWrite_Always(dry_run) == TRUE

IssuesWrite(dry_run) == ~dry_run

(***************************************************************************)
(* hub.py: push_schedule, lines 258-326, up to the await of the write      *)
(***************************************************************************)
PushSchedule(arg, dry_run) ==
  /\ ncalls < MaxCalls
  /\ ncalls' = ncalls + 1
  /\ prev_call' = last_call
  /\ in_succession' = (last_call.ret # "none" /\ ~interleaved)
  /\ interleaved' = FALSE
  /\ LET slots   == NormalizeSlots(arg)
         payload == BuildPayload(ObjOf(cache), main_control_device_id, slots)
         call    == [NoCall EXCEPT !.dry_run = dry_run, !.cache_before = cache]
     IN  IF DeviceIdUnknown(main_control_device_id)
         THEN /\ last_call' = [call EXCEPT !.ret = "error"]
              /\ UNCHANGED <<inflight, writes>>
         ELSE IF ~IssuesWrite(dry_run)
         THEN /\ last_call' = [call EXCEPT !.ret = "dry_run", !.slots = slots,
                                           !.payload = payload]
              /\ UNCHANGED <<inflight, writes>>
         ELSE /\ last_call' = [call EXCEPT !.ret = "pending", !.slots = slots,
                                           !.payload = payload,
                                           !.sent = Clean(payload),
                                           !.req = writes + 1]
              /\ Send("push_schedule", payload)
  /\ UNCHANGED <<main_control_device_id, cache, coordinator_data, cloud, hass, opt, args, ret, tcp, entity>>

(***************************************************************************)
(* api.py post (lines 79-104) returns, and set_ai_system_times_with_       *)
(* energy_mode resumes at line 246.  "ok": the cloud stored the record and *)
(* answered result 0.  "rejected": HTTP error, exception or non-zero       *)
(* result, nothing stored.  "lost": the cloud stored the record but the    *)
(* answer did not arrive (timeout), so post returned {}.                   *)
(***************************************************************************)
WriteResponse(req, outcome) ==
  /\ req \in inflight
  /\ inflight' = inflight \ {req}
  /\ cloud' = IF outcome \in {"ok", "lost"} THEN Update(cloud, req.data) ELSE cloud
  /\ cache' = IF outcome = "ok" THEN CacheAfterWrite(cache, req.data) ELSE cache
  /\ coordinator_data' =
       IF coordinator_data.same_object
       THEN [coordinator_data EXCEPT !.ai_settings = cache']
       ELSE coordinator_data
  /\ last_call' =
       IF req.id = last_call.req
       THEN [last_call EXCEPT !.ret = IF outcome = "ok" THEN "ok" ELSE "failed"]
       ELSE last_call
  /\ interleaved' = (interleaved \/ req.id # last_call.req)
  /\ UNCHANGED <<main_control_device_id, writes, prev_call, in_succession, ncalls,
                 hass, opt, args, ret, tcp, entity>>

(***************************************************************************)
(* hub.py get_ai_system_times_with_energy_mode, lines 232-239, called by   *)
(* the slow coordinator (coordinator.py 64-91) or by the service           *)
(* service_get_ai_system_times_with_energy_mode (__init__.py 138-141),     *)
(* which replaces the cache without renewing the coordinator's data.       *)
(***************************************************************************)
\* line 238: self.data["ai_system_times_with_energy_mode"] = resp
StoreRead_KeepOnFailure(cached, resp) == IF resp.kind = "obj" THEN resp ELSE cached

StoreRead(cached, resp) == resp

Refresh(resp, via) ==
  /\ ncalls < MaxCalls
  /\ ncalls' = ncalls + 1
  /\ interleaved' = TRUE
  /\ IF via = "coordinator" /\ DeviceIdUnknown(main_control_device_id)
     THEN /\ cache' = cache
          /\ coordinator_data' = CoordinatorView(cache)
     ELSE /\ cache' = StoreRead(cache, resp)
          /\ coordinator_data' =
               IF via = "coordinator" THEN CoordinatorView(cache')
               ELSE [coordinator_data EXCEPT !.same_object = FALSE]
  /\ UNCHANGED <<main_control_device_id, cloud, inflight, writes, last_call,
                 prev_call, in_succession, hass, opt,
                 args, ret, tcp, entity>>

(***************************************************************************)
(* The read-modify-write of the AI-setting entities: switch.py 149-155,    *)
(* number.py 146-154, select.py 70-84.  The entities exist only when the   *)
(* device id was known at setup.                                            *)
(***************************************************************************)
\* new_obj = dict(obj); new_obj[field] = value;
\* if "datalogSn" not in new_obj: new_obj["datalogSn"] = main_control_device_id
EntityPayload(obj, field, value) ==
  LET new_obj == Update(obj, [k \in {field} |-> value])
  IN  IF "datalogSn" \in DOMAIN new_obj THEN new_obj
      ELSE Update(new_obj, [datalogSn |-> main_control_device_id])

EntityWrite(caller, field, value) ==
  /\ ncalls < MaxCalls
  /\ ~DeviceIdUnknown(main_control_device_id)
  /\ ncalls' = ncalls + 1
  /\ interleaved' = TRUE
  /\ Send(caller, EntityPayload(ObjOf(coordinator_data.ai_settings), field, value))
  /\ UNCHANGED <<main_control_device_id, cache, coordinator_data, cloud, last_call,
                 prev_call, in_succession, hass, opt,
                 args, ret, tcp, entity>>

AiSwitchWrite(value) == EntityWrite("switch", "antiRefluxSet", value)

AiNumberSet(value) == EntityWrite("number", "maxChargePower", value)

SelectOption(mode_code) == EntityWrite("select", "energyMode", mode_code)

\* __init__.py 147-148: hub.set_ai_system_times_with_energy_mode(call.data)
ServiceSet(data) ==
  /\ ncalls < MaxCalls
  /\ ncalls' = ncalls + 1
  /\ interleaved' = TRUE
  /\ Send("service", data)
  /\ UNCHANGED <<main_control_device_id, cache, coordinator_data, cloud, last_call,
                 prev_call, in_succession, hass, opt,
                 args, ret, tcp, entity>>

HubNext ==
  \/ \E arg \in SlotArgs, dry_run \in BOOLEAN : PushSchedule(arg, dry_run)
  \/ \E req \in inflight, outcome \in {"ok", "rejected", "lost"} : WriteResponse(req, outcome)
  \/ \E read \in Reads(cloud) : Refresh(read[1], read[2])
  \/ \E value \in {"0"} : AiSwitchWrite(value)
  \/ \E value \in {"2400"} : AiNumberSet(value)
  \/ \E mode_code \in {"1"} : SelectOption(mode_code)
  \/ \E data \in ServiceData : ServiceSet(data)

(***************************************************************************)
(* Inputs of the optimizer                                                 *)
(***************************************************************************)
\* a price curve of n entries: entry i is the grid quarter start + (i-1)*step
\* (step 1: a 15-minute source or an expanded hourly one; step 4: a source
\* listing one entry per hour, today's remaining hours and then tomorrow's),
\* priced by repeating `pattern`
Curve(start, step, n, pattern) ==
  [i \in 1..n |->
     LET q == Grid[((start + (i - 1) * step) % 96) + 1]
     IN  <<q[1], q[2], pattern[((i - 1) % Len(pattern)) + 1]>>]

\* the curve of the arbitrage scenario: low prices from 00:00 to 03:00, one
\* high-priced quarter at 18:00
ScenarioCurve ==
  [i \in 1..96 |->
     <<Grid[i][1], Grid[i][2],
       IF i <= 12 THEN 50 ELSE IF Grid[i] = <<18, 0>> THEN 300 ELSE 150>>]

\* a window that starts at 18:00: one high-priced quarter at 19:00, low prices
\* from 23:00 to 01:00, across midnight
EveningCurve ==
  [i \in 1..96 |->
     LET q == Grid[((72 + i - 1) % 96) + 1]
     IN  <<q[1], q[2],
           IF q[1] \in {23, 0} THEN 50 ELSE IF q = <<19, 0>> THEN 300 ELSE 150>>]

Curves ==
  {Curve(0, 1, 96, <<50, 150>>),
   Curve(0, 1, 96, <<50, 300>>),
   Curve(88, 1, 96, <<300, 150, 80>>),
   Curve(0, 1, 96, <<50>>),
   Curve(40, 1, 96, <<250>>),
   Curve(40, 4, 38, <<50, 50, 300, 300, 150>>),
   Curve(84, 1, 40, <<50, 50, 50, 150, 300, 300>>),
   Curve(92, 1, 1, <<300>>),
   ScenarioCurve,
   EveningCurve}

NoSolar == EmptyDict

SunnyDay == [hour \in 9..16 |-> IF hour \in 11..14 THEN 3000 ELSE 700]

DefaultConsumption == [i \in 1..24 |-> 500]

HassStates ==
  {[mode |-> ma[1], active |-> ma[2],
    reserve_soc |-> soc[1], ev_reserve_soc |-> soc[2], current_soc |-> soc[3],
    ev_charging |-> ev,
    low_price |-> thr[1], high_price |-> thr[2],
    prices |-> prices, solar |-> solar, consumption |-> DefaultConsumption] :
     ma \in {<<"Prijs-arbitrage", "on">>, <<"Zelfverbruik", "on">>,
              <<"Gebalanceerd", "on">>, <<"Uit", "on">>, <<"Gebalanceerd", "off">>},
     soc \in {<<15, 20, 50>>, <<15, 20, 40>>, <<15, 20, 20>>, <<96, 20, 50>>, <<0, 0, 50>>},
     ev \in BOOLEAN,
     thr \in {<<80, 250>>, <<250, 250>>},
     prices \in Curves,
     solar \in {NoSolar, SunnyDay}}

HassIdle ==
  [mode |-> "Uit", active |-> "off", reserve_soc |-> 15, ev_reserve_soc |-> 20,
   current_soc |-> 50, ev_charging |-> FALSE, low_price |-> 80, high_price |-> 250,
   prices |-> <<>>, solar |-> NoSolar, consumption |-> DefaultConsumption]

(***************************************************************************)
(* Spec: the hub and its callers; the optimizer is not run.                *)
(***************************************************************************)
\* no helper function is being applied
NoArgs == <<>>

\* tcp_manager.py 9 and hub.local_client before any discovery: no
\* TCPClientManager, no SunpuraDeviceClient, no exchange
TcpIdle == [conn |-> 0, clients |-> 0, lock |-> <<>>, calls |-> <<>>,
            device |-> <<>>, reader |-> <<>>]

\* number.py 107: _optimistic_value = None; nothing written or read yet
EntityIdle ==
  [kind |-> "number", optimistic |-> <<>>,
   data |-> [kind |-> "empty", obj |-> [k \in {} |-> "None"]],
   set |-> <<>>, delivered |-> FALSE, read |-> <<>>]

\* the helper function has not returned yet / has returned value
NotReturned == [done |-> FALSE]

Returned(value) == [done |-> TRUE, value |-> value]

Init ==
  /\ HubInit
  /\ hass = HassIdle
  /\ opt = NotRun
  /\ args = NoArgs
  /\ ret = NotReturned
  /\ tcp = TcpIdle
  /\ entity = EntityIdle

Next == HubNext

Spec == Init /\ [][Next]_vars

(***************************************************************************)
(* SpecOpt: one scheduler run.  optimize() is computed from the Home       *)
(* Assistant states and the cached device record, and its result is        *)
(* dispatched through push_schedule (the push_schedule service,            *)
(* __init__.py 406-413, called with the optimizer's slot list).            *)
(***************************************************************************)
Optimize ==
  /\ ~opt.done
  /\ opt' = optimize(hass, cache)
  /\ UNCHANGED <<hubVars, hass, args, ret, tcp, entity>>

Dispatch(dry_run) ==
  /\ opt.done
  /\ last_call.ret = "none"
  /\ PushSchedule(ListArg(opt.slots), dry_run)

OptInit ==
  /\ HubInit
  /\ main_control_device_id = DeviceSn
  /\ hass \in HassStates
  /\ opt = NotRun
  /\ args = NoArgs
  /\ ret = NotReturned
  /\ tcp = TcpIdle
  /\ entity = EntityIdle

OptNext ==
  \/ Optimize
  \/ \E dry_run \in BOOLEAN : Dispatch(dry_run)
  \/ \E req \in inflight, outcome \in {"ok", "rejected", "lost"} : WriteResponse(req, outcome)

SpecOpt == OptInit /\ [][OptNext]_vars

(***************************************************************************)
(* optimizer.py: the price sources, lines 145-264.  src is the record of   *)
(* what the methods read: now (dt_now() as <<hour, minute, second>>) and,  *)
(* per integration, the attributes of its sensors in the order of          *)
(* async_entity_ids.  A price is a whole number of thousandths of a euro;  *)
(* an ENTSO-E entry's time is <<day, hour, minute>>, day 0 being today.    *)
(* A source that returns None is written as returning <<>>: the sources    *)
(* never return an empty list and _get_prices only tests `if prices`.      *)
(***************************************************************************)
\* _expand_hourly_to_quarters, lines 49-57
_expand_hourly_to_quarters(hourly) ==
  [i \in 1..(4 * Len(hourly)) |->
     <<hourly[((i - 1) \div 4) + 1][1], 15 * ((i - 1) % 4),
       hourly[((i - 1) \div 4) + 1][2]>>]

\* lines 167-175: the entries of today + tomorrow that have a time and a
\* price and do not lie more than 15 minutes before now
EntsoeKept(sensor, now) ==
  LET entries == sensor.prices_today \o sensor.prices_tomorrow
      now_s   == (now[1] * 60 + now[2]) * 60 + now[3]
      t_s(e)  == ((e.time[1] * 24 + e.time[2]) * 60 + e.time[3]) * 60
      kept    == SelectSeq(entries,
                   LAMBDA e : /\ {"time", "price"} \subseteq DOMAIN e
                              /\ ~(t_s(e) < now_s - 15 * 60))
  IN  [i \in 1..Len(kept) |-> <<kept[i].time[2], kept[i].time[3], kept[i].price>>]

\* line 184: return result[:96]
EntsoeCap_None(result) == result

EntsoeCap(result) == SubSeq(result, 1, Min(Len(result), 96))

\* _get_entsoe_prices, lines 145-186: the loop over the sensors
RECURSIVE EntsoeLoop(_, _, _)
EntsoeLoop(sensors, i, now) ==
  IF i > Len(sensors) THEN <<>>
  ELSE IF sensors[i].prices_today = <<>> THEN EntsoeLoop(sensors, i + 1, now)
  ELSE IF EntsoeKept(sensors[i], now) # <<>> THEN EntsoeCap(EntsoeKept(sensors[i], now))
  ELSE EntsoeLoop(sensors, i + 1, now)

_get_entsoe_prices(src) == EntsoeLoop(src.entsoe, 1, src.now)

\* lines 203-207 and 230-234: the hours and entries of up to 24 hourly
\* entries from index now_hour on
Hourly(all_prices, now_hour) ==
  [i \in 1..Max(0, Min(24, Len(all_prices) - now_hour)) |->
     <<(now_hour + i - 1) % 24, all_prices[now_hour + i]>>]

\* line 208: float(entry.get("total") or entry.get("price") or 0.25)
TibberPrice(entry) ==
  IF Get(entry, "total", 0) # 0 THEN entry.total
  ELSE IF Get(entry, "price", 0) # 0 THEN entry.price
  ELSE 250

\* line 235: float(entry.get("value") or 0.25) for a dict, float(entry)
\* otherwise; an entry that is a plain number n is written [number |-> n]
NordpoolPrice(entry) ==
  IF "number" \in DOMAIN entry THEN entry.number
  ELSE IF Get(entry, "value", 0) # 0 THEN entry.value
  ELSE 250

\* _get_tibber_prices, lines 188-213
RECURSIVE TibberLoop(_, _, _)
TibberLoop(sensors, i, now) ==
  IF i > Len(sensors) THEN <<>>
  ELSE LET all_prices == sensors[i].prices_today \o sensors[i].prices_tomorrow
           entries    == Hourly(all_prices, now[1])
           hourly     == [k \in 1..Len(entries) |->
                            <<entries[k][1], TibberPrice(entries[k][2])>>]
       IN  IF all_prices = <<>> \/ hourly = <<>> THEN TibberLoop(sensors, i + 1, now)
           ELSE _expand_hourly_to_quarters(hourly)

_get_tibber_prices(src) == TibberLoop(src.tibber, 1, src.now)

\* _get_nordpool_prices, lines 215-240
RECURSIVE NordpoolLoop(_, _, _)
NordpoolLoop(sensors, i, now) ==
  IF i > Len(sensors) THEN <<>>
  ELSE LET all_raw == sensors[i].raw_today \o sensors[i].raw_tomorrow
           entries == Hourly(all_raw, now[1])
           hourly  == [k \in 1..Len(entries) |->
                         <<entries[k][1], NordpoolPrice(entries[k][2])>>]
       IN  IF all_raw = <<>> \/ hourly = <<>> THEN NordpoolLoop(sensors, i + 1, now)
           ELSE _expand_hourly_to_quarters(hourly)

_get_nordpool_prices(src) == NordpoolLoop(src.nordpool, 1, src.now)

\* `if prices:` -- neither None nor an empty list
Truthy(prices) == prices # <<>>

\* lines 257-264: 96 quarters at 0.25 from now rounded down to the grid
FlatFallback(now) ==
  [i \in 1..96 |->
     LET q == Grid[((now[1] * 4 + now[2] \div 15 + i - 1) % 96) + 1]
     IN  <<q[1], q[2], 250>>]

\* _get_prices, lines 242-264
_get_prices_TibberFirst(src) ==
  IF Truthy(_get_tibber_prices(src)) THEN _get_tibber_prices(src)
  ELSE IF Truthy(_get_entsoe_prices(src)) THEN _get_entsoe_prices(src)
  ELSE IF Truthy(_get_nordpool_prices(src)) THEN _get_nordpool_prices(src)
  ELSE FlatFallback(src.now)

_get_prices(src) ==
  IF Truthy(_get_entsoe_prices(src)) THEN _get_entsoe_prices(src)
  ELSE IF Truthy(_get_tibber_prices(src)) THEN _get_tibber_prices(src)
  ELSE IF Truthy(_get_nordpool_prices(src)) THEN _get_nordpool_prices(src)
  ELSE FlatFallback(src.now)

(***************************************************************************)
(* SpecPrices: _get_prices applied to the sensors of one moment.           *)
(***************************************************************************)
\* a day of ENTSO-E entries every `step` quarters, priced 100 + 24*day + hour
EntsoeDay(day, step) ==
  [i \in 1..(96 \div step) |->
     LET q == Grid[(i - 1) * step + 1]
     IN  [time |-> <<day, q[1], q[2]>>, price |-> 100 + 24 * day + q[1]]]

EntsoeSensors ==
  {<<>>,
   <<[prices_today |-> EntsoeDay(0, 1), prices_tomorrow |-> <<>>]>>,
   <<[prices_today |-> EntsoeDay(0, 1), prices_tomorrow |-> EntsoeDay(1, 1)]>>,
   <<[prices_today |-> EntsoeDay(0, 4), prices_tomorrow |-> EntsoeDay(1, 4)]>>,
   <<[prices_today |-> <<>>, prices_tomorrow |-> EntsoeDay(1, 1)],
     [prices_today |-> <<[price |-> 100]>>, prices_tomorrow |-> <<>>]>>,
   <<[prices_today |-> SubSeq(EntsoeDay(0, 1), 1, 4), prices_tomorrow |-> <<>>],
     [prices_today |-> SubSeq(EntsoeDay(0, 1), 1, 88), prices_tomorrow |-> <<>>]>>}

\* 24 hourly Tibber entries priced 200 + 24*day + hour
TibberDay(day) == [i \in 1..24 |-> [total |-> 200 + 24 * day + (i - 1)]]

TibberSensors ==
  {<<>>,
   <<[prices_today |-> TibberDay(0), prices_tomorrow |-> <<>>]>>,
   <<[prices_today |-> <<>>, prices_tomorrow |-> <<>>],
     [prices_today |-> TibberDay(0), prices_tomorrow |-> TibberDay(1)]>>}

\* 24 hourly Nordpool values priced 300 + 24*day + hour, plain or as dicts
NordpoolSensors ==
  {<<>>,
   <<[raw_today |-> [i \in 1..24 |-> [number |-> 300 + (i - 1)]],
      raw_tomorrow |-> <<>>]>>,
   <<[raw_today |-> [i \in 1..24 |-> [value |-> 300 + (i - 1)]],
      raw_tomorrow |-> [i \in 1..24 |-> [value |-> 324 + (i - 1)]]]>>}

Nows == {<<0, 0, 0>>, <<10, 7, 30>>, <<20, 0, 0>>, <<23, 50, 10>>}

PriceSources ==
  {[now |-> now, entsoe |-> entsoe, tibber |-> tibber, nordpool |-> nordpool] :
     now \in Nows, entsoe \in EntsoeSensors, tibber \in TibberSensors,
     nordpool \in NordpoolSensors}

PricesInit ==
  /\ HubInit
  /\ main_control_device_id = DeviceSn
  /\ cache = Response("obj", DeviceRecord)
  /\ hass = HassIdle
  /\ opt = NotRun
  /\ args \in PriceSources
  /\ ret = NotReturned
  /\ tcp = TcpIdle
  /\ entity = EntityIdle

GetPrices ==
  /\ ~ret.done
  /\ ret' = Returned(_get_prices(args))
  /\ UNCHANGED <<hubVars, hass, opt, args, tcp, entity>>

PricesNext == GetPrices

SpecPrices == PricesInit /\ [][PricesNext]_vars

(***************************************************************************)
(* SpecSlots: _slot_to_str applied to two slots.                           *)
(***************************************************************************)
SlotUniverse ==
  {[enabled |-> enabled, start |-> start, end |-> end, power_w |-> power_w,
    max_soc |-> max_soc, min_soc |-> min_soc] :
     enabled \in BOOLEAN,
     start \in {"00:00", "23:45"},
     end \in {"00:15", "09:30"},
     power_w \in {-2400, -1, 0, 10},
     max_soc \in {1, 100},
     min_soc \in {0, 10}}

SlotsInit ==
  /\ HubInit
  /\ main_control_device_id = DeviceSn
  /\ cache = Response("obj", DeviceRecord)
  /\ hass = HassIdle
  /\ opt = NotRun
  /\ args \in SlotUniverse \X SlotUniverse
  /\ ret = NotReturned
  /\ tcp = TcpIdle
  /\ entity = EntityIdle

Encode ==
  /\ ~ret.done
  /\ ret' = Returned(<<_slot_to_str(args[1]), _slot_to_str(args[2])>>)
  /\ UNCHANGED <<hubVars, hass, opt, args, tcp, entity>>

SlotsNext == Encode

SpecSlots == SlotsInit /\ [][SlotsNext]_vars

(***************************************************************************)
(* Properties                                                              *)
(***************************************************************************)
\* the latest push_schedule call got as far as building its payload
Built(call) == call.ret \in {"dry_run", "pending", "ok", "failed"}

Has16Slots(payload, slots) ==
  /\ DOMAIN payload \cap ControlTimeKeys = SlotKeys
  /\ \A k \in SlotKeys :
       payload[k] = IF SlotIndex[k] <= Len(slots) THEN _slot_to_str(slots[SlotIndex[k]])
                    ELSE _EMPTY_SLOT

\* C1: whatever slot list and cached record push_schedule is given, the
\* payload it returns (dry run) or writes holds exactly the slot keys
\* controlTime1..controlTime16: position i carries the encoding of the i-th
\* provided slot for i <= min(n, 16), every later one the disabled-slot string.
C1_Exactly16SlotFields ==
  /\ Built(last_call) => Has16Slots(last_call.payload, last_call.slots)
  /\ last_call.ret \in {"pending", "ok", "failed"} =>
       /\ DOMAIN last_call.sent \cap ControlTimeKeys = SlotKeys
       /\ \A k \in SlotKeys : last_call.sent[k] = last_call.payload[k]
  /\ \A req \in inflight :
       req.caller = "push_schedule" /\ req.id = last_call.req =>
         req.data = last_call.sent

C1_Witness ==
  /\ last_call.ret = "pending"
  /\ Len(last_call.slots) > 16
  /\ "controlTime17" \in DOMAIN ObjOf(last_call.cache_before)
  /\ ObjOf(last_call.cache_before)["controlTime17"] # None
  /\ \E req \in inflight : req.id = last_call.req

\* C2: optimize never returns more than 16 slots.
C2_AtMost16Slots == opt.done => Len(opt.slots) <= 16

C2_Witness ==
  /\ opt.done
  /\ hass.ev_charging
  /\ Len(_group_consecutive_quarters(opt.charge_quarters))
       + Len(_group_consecutive_quarters(opt.discharge_quarters)) > 16
  /\ Len(opt.slots) = 15

\* C3: every slot optimize returns has 0 <= min_soc <= max_soc <= 100, for
\* all reserve and EV-reserve settings in 0..100.
C3_SocBounds ==
  \A i \in 1..Len(opt.slots) :
    /\ 0 <= opt.slots[i].min_soc
    /\ opt.slots[i].min_soc <= opt.slots[i].max_soc
    /\ opt.slots[i].max_soc <= 100

\* the whole number of watts each numeric text stands for
Watts == [s \in {ToString(n) : n \in 0..2400} |-> CHOOSE n \in 0..2400 : ToString(n) = s]

\* the limit the device's cached record gives, 2400 W when it is not readable
Limit(key) ==
  LET obj == ObjOf(cache)
  IN  IF key \in DOMAIN obj /\ obj[key] \in DOMAIN Watts THEN Watts[obj[key]] ELSE 2400

\* C4: a charging slot (grid charge run or EV top-up) has
\* |power_w| <= max_charge_w, a discharging slot power_w <= max_discharge_w.
C4_PowerLimits ==
  LET max_charge == Limit("maxChargePower")
      max_feed   == Limit("maxFeedPower")
  IN  \A i \in 1..Len(opt.slots) :
        IF i \in (opt.n_charge + 1)..(opt.n_charge + opt.n_discharge)
        THEN /\ opt.slots[i].power_w >= 0
             /\ opt.slots[i].power_w <= max_feed
        ELSE /\ opt.slots[i].power_w <= 0
             /\ Abs(opt.slots[i].power_w) <= max_charge

C4_Witness ==
  /\ opt.n_charge > 0
  /\ opt.n_discharge > 0
  /\ Len(opt.slots) > opt.n_charge + opt.n_discharge
  /\ Limit("maxChargePower") > Limit("maxFeedPower")

\* C5: after classification the charge and discharge bucket sets are
\* disjoint; a bucket classified both ways stays in the charge set and is
\* removed from the discharge set.
C5_Disjoint ==
  /\ Range(opt.charge_quarters) \cap Range(opt.discharge_quarters) = {}
  /\ Range(opt.charge_quarters) = Range(opt.raw_charge)
  /\ Range(opt.discharge_quarters) = Range(opt.raw_discharge) \ Range(opt.raw_charge)

C5_Witness ==
  /\ opt.done
  /\ Range(opt.raw_charge) \cap Range(opt.raw_discharge) # {}
  /\ opt.discharge_quarters # <<>>

\* C6: no payload sent to the device write interface holds a read-only
\* field or a field whose value is null, whoever issues the write.
C6_NoReadonlyNoNull ==
  \A req \in inflight : \A k \in DOMAIN req.data :
    /\ k \notin {"id", "sn", "createTime", "updateTime", "currentPower",
                 "currentWorkMode", "modeStr", "aiActiveTime", "priceType",
                 "smartModeLimitFlag"}
    /\ req.data[k] # None

C6_Witness ==
  /\ {req.caller : req \in inflight} = {"service", "number"}
  /\ "id" \in DOMAIN ObjOf(coordinator_data.ai_settings)
  /\ \E k \in DOMAIN ObjOf(coordinator_data.ai_settings) :
       ObjOf(coordinator_data.ai_settings)[k] = None

\* C7: the payload of push_schedule carries every writable, non-null,
\* non-slot field of the cached record unchanged, except energyMode (set to
\* 2) and datalogSn (set to the main control device id), and no other
\* non-slot key.
C7_UnrelatedFieldsKept ==
  Built(last_call) =>
    LET cached  == ObjOf(last_call.cache_before)
        payload == last_call.payload
        owned   == {"energyMode", "datalogSn"}
        kept    == {k \in DOMAIN cached :
                      /\ k \notin _READONLY_FIELDS
                      /\ cached[k] # None
                      /\ k \notin ControlTimeKeys}
    IN  /\ \A k \in kept \ owned : k \in DOMAIN payload /\ payload[k] = cached[k]
        /\ payload["energyMode"] = "2"
        /\ payload["datalogSn"] = main_control_device_id
        /\ DOMAIN payload \ ControlTimeKeys = kept \cup owned

C7_Witness ==
  /\ Built(last_call)
  /\ LET cached == ObjOf(last_call.cache_before)
     IN  /\ "id" \in DOMAIN cached
         /\ "antiRefluxSet" \in DOMAIN cached /\ cached["antiRefluxSet"] = None
         /\ "ctEnable" \in DOMAIN cached /\ cached["ctEnable"] = "0"
         /\ "energyMode" \notin DOMAIN cached

\* C8: push_schedule with dry_run=true returns the merged payload, issues
\* no write and leaves the cached device record as it was.
C8_DryRunNoWrite ==
  last_call.dry_run /\ last_call.ret # "none" =>
    /\ last_call.ret \in {"dry_run", "error"}
    /\ last_call.req = 0
    /\ last_call.ret = "dry_run" =>
         /\ last_call.sent = EmptyDict
         /\ SlotKeys \cup {"energyMode", "datalogSn"} \subseteq DOMAIN last_call.payload
    /\ ~interleaved => cache = last_call.cache_before

C8_Witness ==
  /\ last_call.ret = "dry_run"
  /\ last_call.cache_before.kind = "obj"
  /\ Len(last_call.slots) > 0
  /\ ~interleaved

C10_DisabledIsNoOp ==
  [][Disabled(hass) =>
       /\ opt'.slots = <<>>
       /\ ~opt'.read_inputs
       /\ cloud' = cloud
       /\ cache' = cache]_vars

\* C11: every unused slot position written by push_schedule holds the
\* disabled-slot literal 0,00:00,00:00,0,0,6,0,0,0,100,10, whose fifth and
\* sixth fields are the constants 0 and 6 of an enabled slot's encoding.
C11_UnusedSlotLiteral ==
  Built(last_call) =>
    \A k \in SlotKeys :
      SlotIndex[k] > Len(last_call.slots) =>
        last_call.payload[k] = "0,00:00,00:00,0,0,6,0,0,0,100,10"

\* C13: with the main control device id unset or empty, push_schedule fails
\* fast in dry-run and in real mode: it returns an error, builds and sends
\* no payload, issues no write and leaves the cache unchanged.
C13_FailFast ==
  (main_control_device_id \in {None, ""} /\ last_call.ret # "none") =>
    /\ last_call.ret = "error"
    /\ last_call.payload = EmptyDict
    /\ last_call.sent = EmptyDict
    /\ last_call.req = 0
    /\ \A req \in inflight : req.caller # "push_schedule"
    /\ ~interleaved => cache = last_call.cache_before

C13_Witness ==
  /\ main_control_device_id = ""
  /\ last_call.ret = "error"
  /\ ~last_call.dry_run
  /\ prev_call.ret = "error"
  /\ prev_call.dry_run

\* C14: the cache is updated if and only if the write is acknowledged with
\* result 0: after a successful push_schedule the cache's energyMode and 16
\* slot fields equal the written payload; after a failed or unacknowledged
\* write the cache is what it was before the call.
C14_CacheFollowsAck ==
  ~interleaved =>
    /\ last_call.ret = "ok" =>
         \A k \in SlotKeys \cup {"energyMode"} :
           /\ k \in DOMAIN ObjOf(cache)
           /\ ObjOf(cache)[k] = last_call.sent[k]
    /\ last_call.ret = "failed" => cache = last_call.cache_before

\* C15: read-modify-write cycles on the device record are serialized: a
\* writer reads the record only after every earlier writer's write and cache
\* update have completed, so no two cycles are in progress together.
C15_Serialized == \A r1, r2 \in inflight : r1 = r2

\* the directional power limit of a slot, from the cached record
SlotLimit(slot) ==
  IF Get(slot, "power_w", 0) < 0 THEN Limit("maxChargePower") ELSE Limit("maxFeedPower")

BreaksInvariants(slot) ==
  LET max_soc == Get(slot, "max_soc", 100)
      min_soc == Get(slot, "min_soc", 10)
  IN  \/ min_soc > max_soc
      \/ min_soc < 0 \/ max_soc > 100
      \/ Abs(Get(slot, "power_w", 0)) > SlotLimit(slot)

\* C16: a slot that violates its invariants (min_soc > max_soc, an SOC bound
\* outside 0..100, |power_w| above the directional limit) is caught before
\* encoding: push_schedule reports an error and writes no payload holding it.
C16_InvalidSlotRejected ==
  /\ Built(last_call) =>
       \A i \in 1..Len(last_call.slots) : ~BreaksInvariants(last_call.slots[i])
  /\ \A req \in inflight :
       req.caller = "push_schedule" =>
         \A k \in SlotKeys : req.data[k] # _slot_to_str(InvalidSlot)

\* the comma-separated fields of a text
RECURSIVE SplitLoop(_, _, _, _)
SplitLoop(text, i, fields, current) ==
  IF i > Len(text) THEN Append(fields, current)
  ELSE IF SubSeq(text, i, i) = ","
  THEN SplitLoop(text, i + 1, Append(fields, current), "")
  ELSE SplitLoop(text, i + 1, fields, current \o SubSeq(text, i, i))

Fields(text) == SplitLoop(text, 1, <<>>, "")

\* the integer a signed decimal text stands for
RECURSIVE DigitsLoop(_, _, _)
DigitsLoop(text, i, acc) ==
  IF i > Len(text) THEN acc
  ELSE DigitsLoop(text, i + 1,
                  10 * acc + (CHOOSE d \in 0..9 : ToString(d) = SubSeq(text, i, i)))

Decimal(text) ==
  IF Len(text) > 0 /\ SubSeq(text, 1, 1) = "-"
  THEN -DigitsLoop(text, 2, 0)
  ELSE DigitsLoop(text, 1, 0)

\* the slot read back from fields 1, 2, 3, 4, 10 and 11 of an encoding
Decoded(text) ==
  LET f == Fields(text)
  IN  [enabled |-> f[1] = "1", start |-> f[2], end |-> f[3],
       power_w |-> Decimal(f[4]), max_soc |-> Decimal(f[10]),
       min_soc |-> Decimal(f[11])]

\* C12: _slot_to_str yields 11 comma-separated fields with fields 5..9 equal
\* to 0,6,0,0,0; reading fields 1,2,3,4,10,11 back reproduces the slot; two
\* different slots never encode to the same text.
C12_RoundTrip ==
  ret.done =>
    /\ \A j \in 1..2 :
         /\ Len(Fields(ret.value[j])) = 11
         /\ SubSeq(Fields(ret.value[j]), 5, 9) = <<"0", "6", "0", "0", "0">>
         /\ Fields(ret.value[j])[1] \in {"0", "1"}
         /\ Decoded(ret.value[j]) = args[j]
    /\ args[1] # args[2] => ret.value[1] # ret.value[2]

C12_Witness ==
  /\ ret.done
  /\ args[1].power_w < 0
  /\ ~args[1].enabled
  /\ args[1].max_soc = 1
  /\ args[1].min_soc = 0
  /\ args[2] = [args[1] EXCEPT !.max_soc = 100, !.min_soc = 10]

(***************************************************************************)
(* Properties of _get_prices, under SpecPrices.  The sensors of            *)
(* PriceSources price their samples in disjoint ranges, so a sample's      *)
(* price tells which source it came from.                                  *)
(***************************************************************************)
SourceOf(sample) ==
  IF sample[3] \in 100..199 THEN "entsoe"
  ELSE IF sample[3] \in 200..249 THEN "tibber"
  ELSE IF sample[3] \in 300..399 THEN "nordpool"
  ELSE "flat"

Yields(source) ==
  CASE source = "entsoe"   -> _get_entsoe_prices(args) # <<>>
    [] source = "tibber"   -> _get_tibber_prices(args) # <<>>
    [] source = "nordpool" -> _get_nordpool_prices(args) # <<>>
    [] source = "flat"     -> TRUE

Priority == <<"entsoe", "tibber", "nordpool", "flat">>

\* the first source in priority order that yields at least one sample
Chosen == Priority[CHOOSE i \in 1..4 :
                     /\ Yields(Priority[i])
                     /\ \A j \in 1..(i - 1) : ~Yields(Priority[j])]

\* C17: _get_prices returns the samples of exactly one source, the first of
\* ENTSO-E, Tibber, Nordpool, flat fallback that yields at least one sample:
\* every returned sample is of that source, the list is that source's list,
\* and a lower-priority source is used only when no higher one yields.
C17_FixedPriority ==
  ret.done =>
    /\ \A i \in 1..Len(ret.value) : SourceOf(ret.value[i]) = Chosen
    /\ Chosen = "entsoe"   => ret.value = _get_entsoe_prices(args)
    /\ Chosen = "tibber"   => ret.value = _get_tibber_prices(args)
    /\ Chosen = "nordpool" => ret.value = _get_nordpool_prices(args)

\* an ENTSO-E sensor is there but yields nothing, Tibber and Nordpool both
\* yield: the result is Tibber's
C17_Witness ==
  /\ ret.done
  /\ args.entsoe # <<>>
  /\ ~Yields("entsoe")
  /\ Yields("tibber")
  /\ Yields("nordpool")
  /\ ret.value = _get_tibber_prices(args)
  /\ ret.value # _get_nordpool_prices(args)

NoSourceYields == ~Yields("entsoe") /\ ~Yields("tibber") /\ ~Yields("nordpool")

\* C18: _get_prices returns between 1 and 96 samples whatever sources are
\* available; when no source yields it returns exactly 96 samples priced
\* 0.25, starting at now rounded down to the 15-minute grid, each the
\* quarter after the one before (wrapping at midnight), 96 distinct buckets.
C18_SampleCount ==
  ret.done =>
    /\ Len(ret.value) \in 1..96
    /\ NoSourceYields =>
         /\ Len(ret.value) = 96
         /\ \A i \in 1..96 : ret.value[i][3] = 250
         /\ ret.value[1][1] = args.now[1]
         /\ ret.value[1][2] = 15 * (args.now[2] \div 15)
         /\ \A i \in 1..95 :
              <<ret.value[i + 1][1], ret.value[i + 1][2]>>
                = _next_quarter(ret.value[i][1], ret.value[i][2])
         /\ Cardinality({<<ret.value[i][1], ret.value[i][2]>> : i \in 1..96}) = 96

\* no source yields at 23:50:10: the fallback starts at 23:45 and wraps
C18_Witness ==
  /\ ret.done
  /\ NoSourceYields
  /\ args.now = <<23, 50, 10>>
  /\ ret.value[1] = <<23, 45, 250>>
  /\ ret.value[2] = <<0, 0, 250>>
  /\ ret.value[96] = <<23, 30, 250>>

\* C19: whichever source is selected, the returned curve is a duplicate-free
\* sequence of consecutive 15-minute buckets, each the quarter after the one
\* before, that covers 24 hours (96 buckets).
C19_ConsecutiveDay ==
  ret.done =>
    /\ Len(ret.value) >= 96
    /\ \A i \in 1..(Len(ret.value) - 1) :
         <<ret.value[i + 1][1], ret.value[i + 1][2]>>
           = _next_quarter(ret.value[i][1], ret.value[i][2])
    /\ \A i, j \in 1..Len(ret.value) :
         <<ret.value[i][1], ret.value[i][2]>> = <<ret.value[j][1], ret.value[j][2]>>
           => i = j

(***************************************************************************)
(* Properties of the run compiler, under SpecOpt.                          *)
(***************************************************************************)
\* position i of the price window and the next one are consecutive buckets
Adjacent(prices, i) ==
  /\ i < Len(prices)
  /\ <<prices[i + 1][1], prices[i + 1][2]>> = _next_quarter(prices[i][1], prices[i][2])

\* the maximal runs <<a, b>> of consecutive buckets of the price window
\* among the positions `hits`
MaximalRuns(prices, hits) ==
  {r \in hits \X hits :
     /\ r[1] <= r[2]
     /\ \A i \in r[1]..r[2] : i \in hits
     /\ \A i \in r[1]..(r[2] - 1) : Adjacent(prices, i)
     /\ (r[1] - 1) \notin hits \/ ~Adjacent(prices, r[1] - 1)
     /\ (r[2] + 1) \notin hits \/ ~Adjacent(prices, r[2])}

\* the text range from a run's first bucket to the bucket after its last
RunRange(prices, r) ==
  LET end == _next_quarter(prices[r[2]][1], prices[r[2]][2])
  IN  <<_quarter_to_str(prices[r[1]][1], prices[r[1]][2]), _quarter_to_str(end[1], end[2])>>

SlotRanges(slots, from, to) == {<<slots[i].start, slots[i].end>> : i \in from..to}

\* C20: in Arbitrage mode with zero solar forecast the charge slots are
\* exactly the ranges of the maximal runs of consecutive buckets priced at or
\* below the low threshold, one slot per run, and the discharge slots exactly
\* the ranges of the maximal runs priced at or above the high threshold; for
\* the scenario curve that is one charge slot 00:00-03:00 and one discharge
\* slot 18:00-18:15.
C20_OneSlotPerRun ==
  (opt.done /\ opt.read_inputs /\ hass.mode = "Prijs-arbitrage" /\ hass.solar = NoSolar) =>
    LET low_runs  == MaximalRuns(hass.prices,
                       {i \in 1..Len(hass.prices) : hass.prices[i][3] <= hass.low_price})
        high_runs == MaximalRuns(hass.prices,
                       {i \in 1..Len(hass.prices) : hass.prices[i][3] >= hass.high_price})
    IN  /\ opt.n_charge = Cardinality(low_runs)
        /\ SlotRanges(opt.slots, 1, opt.n_charge)
             = {RunRange(hass.prices, r) : r \in low_runs}
        /\ opt.n_discharge = Cardinality(high_runs)
        /\ SlotRanges(opt.slots, opt.n_charge + 1, opt.n_charge + opt.n_discharge)
             = {RunRange(hass.prices, r) : r \in high_runs}
        /\ (hass.prices = ScenarioCurve /\ hass.low_price = 80) =>
             /\ SlotRanges(opt.slots, 1, opt.n_charge) = {<<"00:00", "03:00">>}
             /\ SlotRanges(opt.slots, opt.n_charge + 1, opt.n_charge + opt.n_discharge)
                  = {<<"18:00", "18:15">>}

(***************************************************************************)
(* Properties of the classification and of the slot list, under SpecOpt.   *)
(***************************************************************************)
\* the curve _get_prices returns when no source yields: 96 samples at 0.25
IsFlatCurve(prices) ==
  Len(prices) = 96 /\ \A i \in 1..96 : prices[i][3] = 250

\* C21: with the flat 0.25 curve, default consumption and zero solar,
\* Balanced mode with low 0.08 and high 0.25 classifies no bucket as charge
\* or discharge and returns an empty schedule.
C21_FlatCurveEmpty ==
  (/\ opt.done
   /\ hass.mode = "Gebalanceerd" /\ hass.active = "on"
   /\ IsFlatCurve(hass.prices)
   /\ hass.solar = NoSolar
   /\ hass.consumption = DefaultConsumption
   /\ hass.low_price = 80 /\ hass.high_price = 250
   /\ ~hass.ev_charging)
    => /\ opt.raw_charge = <<>>
       /\ opt.raw_discharge = <<>>
       /\ opt.slots = <<>>

\* the run <<a, b>> of window positions continues across midnight
CrossesMidnight(prices, r) ==
  \E i \in r[1]..(r[2] - 1) : <<prices[i][1], prices[i][2]>> = <<23, 45>>

\* C22: same-class buckets that are contiguous across midnight in the price
\* window (23:00..23:45 followed by 00:00..00:45) compile into one slot from
\* the run's first bucket to the bucket after its last (23:00-01:00), not
\* into two slots split at 00:00.  Stated for the charge runs of Arbitrage
\* mode with zero solar, when the 14-slot cap is not reached.
C22_MidnightContinues ==
  (/\ opt.done /\ opt.read_inputs
   /\ hass.mode = "Prijs-arbitrage" /\ hass.solar = NoSolar
   /\ opt.n_charge < RunCap)
    => \A r \in MaximalRuns(hass.prices,
                  {i \in 1..Len(hass.prices) : hass.prices[i][3] <= hass.low_price}) :
         CrossesMidnight(hass.prices, r)
           => RunRange(hass.prices, r) \in SlotRanges(opt.slots, 1, opt.n_charge)

\* the phase that appended a slot, told from its fields: the discharge loop
\* sets max_soc 100, the charge loop max_soc 95, min_soc effective_reserve
\* and power -max_charge_w, the EV loop the rest (phases 1, 2, 3)
Phases(slots) ==
  LET charge_w == ChargePower(_max_charge_w(cache))
      reserve  == effective_reserve(hass)
  IN  [i \in 1..Len(slots) |->
         IF slots[i].max_soc = 100 THEN 2
         ELSE IF /\ slots[i].max_soc = 95
                 /\ slots[i].min_soc = reserve
                 /\ slots[i].power_w = charge_w
              THEN 1
              ELSE 3]

PhaseCount(phases, phase) == Cardinality({i \in 1..Len(phases) : phases[i] = phase})

\* C23: in the list optimize returns every charge-run slot precedes every
\* discharge-run slot and every EV top-up slot comes last; the charge and
\* discharge loops stop once 14 slots exist and the EV loop once 15 exist,
\* so with 14 or more charge runs no discharge slot is emitted.
C23_PhaseOrderAndCaps ==
  (opt.done /\ opt.read_inputs) =>
    LET charge_runs    == Len(_group_consecutive_quarters(opt.charge_quarters))
        discharge_runs == Len(_group_consecutive_quarters(opt.discharge_quarters))
        phases         == Phases(opt.slots)
    IN  /\ \A i \in 1..(Len(phases) - 1) : phases[i] <= phases[i + 1]
        /\ PhaseCount(phases, 1) = Min(14, charge_runs)
        /\ PhaseCount(phases, 1) + PhaseCount(phases, 2)
             = Min(14, charge_runs + discharge_runs)
        /\ Len(opt.slots) <= 15
        /\ charge_runs >= 14 => PhaseCount(phases, 2) = 0

\* 14 or more charge runs and some discharge buckets: 14 charge slots, no
\* discharge slot, and one EV slot as the 15th
C23_Witness ==
  /\ opt.done
  /\ Len(_group_consecutive_quarters(opt.charge_quarters)) >= 14
  /\ opt.discharge_quarters # <<>>
  /\ Len(opt.slots) = 15
  /\ Phases(opt.slots)[14] = 1
  /\ Phases(opt.slots)[15] = 3

\* C24: EV top-up slots are appended only when ev_charging is true, and a run
\* is appended only if no existing charge slot covers it: no bucket of an EV
\* top-up slot lies inside the time range of a charge slot.
C24_EvOutsideCharge ==
  (opt.done /\ opt.read_inputs) =>
    LET phases == Phases(opt.slots)
    IN  /\ ~hass.ev_charging => PhaseCount(phases, 3) = 0
        /\ \A e, c \in 1..Len(opt.slots) :
             (phases[e] = 3 /\ phases[c] = 1) =>
               \A i \in 1..96 : ~(/\ _quarter_in_slot(Grid[i], opt.slots[e])
                                  /\ _quarter_in_slot(Grid[i], opt.slots[c]))

\* C25: in mode 'Zelfverbruik' no bucket is classified charge, and a bucket
\* is classified discharge exactly when its price is at or above the high
\* threshold and the current SOC exceeds reserve_soc (plus ev_reserve_soc
\* while the EV charges) by more than 10; with the SOC at or below that
\* level no discharge slot is produced.
C25_SelfConsumptionGate ==
  (opt.done /\ opt.read_inputs /\ hass.mode = "Zelfverbruik") =>
    LET reserve == IF hass.ev_charging THEN hass.reserve_soc + hass.ev_reserve_soc
                   ELSE hass.reserve_soc
        gate    == hass.current_soc > reserve + 10
        hits    == SelectSeq(hass.prices, LAMBDA e : e[3] >= hass.high_price /\ gate)
    IN  /\ opt.raw_charge = <<>>
        /\ opt.raw_discharge = [i \in 1..Len(hits) |-> <<hits[i][1], hits[i][2]>>]
        /\ ~gate => \A i \in 1..Len(opt.slots) :
                      opt.slots[i].max_soc # 100 /\ opt.slots[i].power_w <= 0

\* SOC 40 is above reserve + 10 but not above reserve + EV reserve + 10: with
\* the EV charging and prices at the high threshold nothing is discharged,
\* while an EV top-up slot is still produced
C25_Witness ==
  /\ opt.done
  /\ hass.mode = "Zelfverbruik"
  /\ hass.ev_charging
  /\ hass.current_soc = 40 /\ hass.reserve_soc = 15 /\ hass.ev_reserve_soc = 20
  /\ \E i \in 1..Len(hass.prices) : hass.prices[i][3] >= hass.high_price
  /\ opt.raw_discharge = <<>>
  /\ opt.slots # <<>>

\* C26: every slot optimize returns has a start different from its end; a
\* run of all 96 buckets of the day is not emitted as the range 00:00-00:00.
C26_StartDiffersFromEnd ==
  opt.done => \A i \in 1..Len(opt.slots) : opt.slots[i].start # opt.slots[i].end

(***************************************************************************)
(* SpecSync: the cache and the cloud under overlapping requests.  Every    *)
(* `await self.apiClient...` of hub.py (lines 237 and 245) is a request    *)
(* that the cloud serves at one moment and whose answer resumes the        *)
(* coroutine at a later one; between the two, other coroutines run.        *)
(* A request in flight: kind "write" or "read", stage "sent" (not yet      *)
(* served) or "answered" (served, answer on its way), data (the cleaned    *)
(* record of a write, the record read by a read), result.                  *)
(***************************************************************************)
\* call.data of two set_ai_system_times_with_energy_mode calls (number
\* entities, service) that write the same and different fields
SyncWrites ==
  {[datalogSn |-> DeviceSn, maxChargePower |-> "1000"],
   [datalogSn |-> DeviceSn, maxChargePower |-> "2000"],
   [datalogSn |-> DeviceSn, maxFeedPower |-> "500", id |-> "7"]}

SyncKeys == UNION {DOMAIN Clean(data) : data \in SyncWrites}

SyncInit ==
  /\ main_control_device_id = DeviceSn
  /\ cloud = DeviceRecord
  /\ cache = Response("obj", DeviceRecord)
  /\ coordinator_data = CoordinatorView(cache)
  /\ inflight = {}
  /\ writes = 0
  /\ last_call = NoCall
  /\ prev_call = NoCall
  /\ interleaved = FALSE
  /\ in_succession = FALSE
  /\ ncalls = 0
  /\ hass = HassIdle
  /\ opt = NotRun
  /\ args = NoArgs
  /\ ret = NotReturned
  /\ tcp = TcpIdle
  /\ entity = EntityIdle

SyncUnchanged ==
  UNCHANGED <<main_control_device_id, last_call, prev_call, interleaved,
              in_succession, hass, opt, args, ret, tcp, entity>>

\* hub.py 242-245: set_ai_system_times_with_energy_mode up to its await
WriteSent(data) ==
  /\ ncalls < MaxCalls
  /\ ncalls' = ncalls + 1
  /\ writes' = writes + 1
  /\ inflight' = inflight \cup
       {[id |-> writes + 1, kind |-> "write", stage |-> "sent",
         data |-> Clean(data), result |-> "none"]}
  /\ UNCHANGED <<cache, coordinator_data, cloud>>
  /\ SyncUnchanged

\* coordinator.py 67-69 / hub.py 235-237: get_ai_system_times_with_energy_mode
\* up to its await
ReadSent ==
  /\ ncalls < MaxCalls
  /\ ncalls' = ncalls + 1
  /\ writes' = writes + 1
  /\ inflight' = inflight \cup
       {[id |-> writes + 1, kind |-> "read", stage |-> "sent",
         data |-> EmptyDict, result |-> "none"]}
  /\ UNCHANGED <<cache, coordinator_data, cloud>>
  /\ SyncUnchanged

\* the cloud serves a request: a write is stored (result 0) or refused, a
\* read is answered with the record as stored at this moment
Served(req, accepted) ==
  /\ req \in inflight
  /\ req.stage = "sent"
  /\ cloud' = IF req.kind = "write" /\ accepted THEN Update(cloud, req.data) ELSE cloud
  /\ inflight' = (inflight \ {req}) \cup
       {[req EXCEPT !.stage = "answered",
                    !.data = IF req.kind = "read" THEN cloud ELSE req.data,
                    !.result = IF accepted THEN "0" ELSE "-1"]}
  /\ UNCHANGED <<cache, coordinator_data, writes, ncalls>>
  /\ SyncUnchanged

\* hub.py 246-256: the write's answer arrives
WriteAnswered(req) ==
  /\ req \in inflight
  /\ req.kind = "write" /\ req.stage = "answered"
  /\ inflight' = inflight \ {req}
  /\ cache' = IF req.result = "0" THEN CacheAfterWrite(cache, req.data) ELSE cache
  /\ coordinator_data' =
       IF coordinator_data.same_object
       THEN [coordinator_data EXCEPT !.ai_settings = cache']
       ELSE coordinator_data
  /\ UNCHANGED <<cloud, writes, ncalls>>
  /\ SyncUnchanged

\* hub.py 238-239 and coordinator.py 82-85: the read's answer arrives and
\* replaces the cache; a failed read answers {}
ReadAnswered(req) ==
  /\ req \in inflight
  /\ req.kind = "read" /\ req.stage = "answered"
  /\ inflight' = inflight \ {req}
  /\ cache' = IF req.result = "0" THEN Response("obj", req.data)
              ELSE Response("empty", EmptyDict)
  /\ coordinator_data' = CoordinatorView(cache')
  /\ UNCHANGED <<cloud, writes, ncalls>>
  /\ SyncUnchanged

SyncNext ==
  \/ \E data \in SyncWrites : WriteSent(data)
  \/ ReadSent
  \/ \E req \in inflight, accepted \in BOOLEAN : Served(req, accepted)
  \/ \E req \in inflight : WriteAnswered(req)
  \/ \E req \in inflight : ReadAnswered(req)

SpecSync == SyncInit /\ [][SyncNext]_vars

\* C27: once no write and no refresh is in flight, the cached device record
\* agrees with the record the cloud stores on every field that was written,
\* whatever the order in which the answers arrived.
C27_CacheAgreesWhenQuiet ==
  (inflight = {} /\ cache.kind = "obj") =>
    \A k \in SyncKeys : Get(ObjOf(cache), k, None) = Get(cloud, k, None)

(***************************************************************************)
(* Properties of the read of the device record, under Spec.                *)
(***************************************************************************)
\* a step of get_ai_system_times_with_energy_mode with a known device id:
\* the one call that sends no write and is not push_schedule
ReadStep ==
  /\ ncalls' = ncalls + 1
  /\ writes' = writes
  /\ interleaved'
  /\ ~DeviceIdUnknown(main_control_device_id)

FailedRead(resp) == resp.kind \in {"None", "empty"}

\* C28: get_ai_system_times_with_energy_mode stores whatever the read
\* returned, a failed (empty or null) answer included, never keeping the
\* record cached before; a push_schedule payload built on such a cache holds
\* only energyMode, datalogSn and the 16 slot fields, and the optimizer's
\* power limits are the 2400 W defaults.
C28_FailedReadReplacesCache ==
  /\ [][ReadStep => cache' \in ReadResponses(cloud)]_vars
  /\ [](FailedRead(cache) =>
          /\ _max_charge_w(cache) = 2400
          /\ _max_discharge_w(cache) = 2400)
  /\ []((Built(last_call) /\ FailedRead(last_call.cache_before)) =>
          DOMAIN last_call.payload = {"energyMode", "datalogSn"} \cup SlotKeys)

\* a null answer replaced the cache while the cloud holds the device's
\* settings, and push_schedule then built its payload from it
C28_Witness ==
  /\ Built(last_call)
  /\ last_call.cache_before.kind = "None"
  /\ cache.kind = "None"
  /\ Get(cloud, "maxChargePower", None) = "800"
  /\ "maxChargePower" \notin DOMAIN last_call.payload
  /\ _max_charge_w(cache) = _DEFAULT_MAX_CHARGE_W

(***************************************************************************)
(* SpecTcp: the local TCP layer for one device address (host, port).       *)
(* tcp.conn is the connection TCPClientManager.reader/writer refer to (the *)
(* n-th one opened, 0 for None), tcp.clients the number of                 *)
(* SunpuraDeviceClient objects created so far (hub.local_client[sn] is the *)
(* latest), tcp.lock[c] the call holding client c's lock (0: free),        *)
(* tcp.calls the fetch_data / set_control_parms calls with their client,   *)
(* position, local reader/writer and return value (0: None, else the call  *)
(* whose request the returned response answers), tcp.device[n] the         *)
(* requests the device received on connection n and has not answered,      *)
(* tcp.reader[n] the responses buffered in connection n's StreamReader.    *)
(***************************************************************************)
MaxClients == 2     \* SunpuraDeviceClient objects created per behaviour
MaxExchanges == 3   \* fetch_data / set_control_parms calls per behaviour

TcpUnchanged == UNCHANGED <<hubVars, hass, opt, args, ret, entity>>

\* discovery.py 60-62, hub.py 518-520: a new client for the same address;
\* tcp_client.py 15 gives it the shared TCPClientManager and its own lock,
\* and connect() (tcp_manager.py 40-42) replaces the manager's reader and
\* writer without closing the old ones
NewClient ==
  /\ tcp.clients < MaxClients
  /\ tcp' = [tcp EXCEPT !.clients = @ + 1,
                        !.conn = Len(tcp.reader) + 1,
                        !.lock = Append(@, 0),
                        !.device = Append(@, <<>>),
                        !.reader = Append(@, <<>>)]
  /\ TcpUnchanged

\* tcp_client.py 171-194 / 217-239 from the lock on: get_reader_writer
\* returns the manager's current reader and writer, the request is written,
\* and the call waits in _read_response
Sent(t, i) ==
  [t EXCEPT !.lock[t.calls[i].client] = i,
            !.calls[i].pc = "reading",
            !.calls[i].conn = t.conn,
            !.device[t.conn] = Append(@, i)]

\* a caller takes hub.local_client[sn] and calls fetch_data: with the
\* client's lock free it runs through to the read, otherwise it queues
StartCall ==
  /\ tcp.clients >= 1
  /\ Len(tcp.calls) < MaxExchanges
  /\ LET i == Len(tcp.calls) + 1
         queued == [tcp EXCEPT !.calls = Append(@, [client |-> tcp.clients,
                                                    pc |-> "waiting", conn |-> 0,
                                                    got |-> 0])]
     IN  tcp' = IF tcp.lock[tcp.clients] = 0 THEN Sent(queued, i) ELSE queued
  /\ TcpUnchanged

\* a queued call gets its client's lock
LockAcquired(i) ==
  /\ i \in 1..Len(tcp.calls)
  /\ tcp.calls[i].pc = "waiting"
  /\ tcp.lock[tcp.calls[i].client] = 0
  /\ tcp' = Sent(tcp, i)
  /\ TcpUnchanged

\* the device answers the oldest request of a connection
DeviceAnswers(n) ==
  /\ n \in 1..Len(tcp.device)
  /\ tcp.device[n] # <<>>
  /\ tcp' = [tcp EXCEPT !.device[n] = Tail(@),
                        !.reader[n] = Append(@, Head(tcp.device[n]))]
  /\ TcpUnchanged

\* tcp_client.py 257-266: reader.read returns the next buffered response,
\* whichever request it answers; the call returns it and releases the lock
ResponseRead(i) ==
  /\ i \in 1..Len(tcp.calls)
  /\ tcp.calls[i].pc = "reading"
  /\ tcp.reader[tcp.calls[i].conn] # <<>>
  /\ tcp' = [tcp EXCEPT !.calls[i].pc = "done",
                        !.calls[i].got = Head(tcp.reader[tcp.calls[i].conn]),
                        !.reader[tcp.calls[i].conn] = Tail(@),
                        !.lock[tcp.calls[i].client] = 0]
  /\ TcpUnchanged

\* reader.read while another coroutine waits on the same StreamReader
\* raises RuntimeError; tcp_client.py 201-203 / 246-248 return None
ReadRefused(i) ==
  /\ i \in 1..Len(tcp.calls)
  /\ tcp.calls[i].pc = "reading"
  /\ tcp.reader[tcp.calls[i].conn] = <<>>
  /\ \E j \in 1..Len(tcp.calls) :
       /\ j # i
       /\ tcp.calls[j].pc = "reading"
       /\ tcp.calls[j].conn = tcp.calls[i].conn
  /\ tcp' = [tcp EXCEPT !.calls[i].pc = "done",
                        !.lock[tcp.calls[i].client] = 0]
  /\ TcpUnchanged

TcpInit ==
  /\ HubInit
  /\ main_control_device_id = DeviceSn
  /\ cache = Response("obj", DeviceRecord)
  /\ hass = HassIdle
  /\ opt = NotRun
  /\ args = NoArgs
  /\ ret = NotReturned
  /\ tcp = TcpIdle
  /\ entity = EntityIdle

TcpNext ==
  \/ NewClient
  \/ StartCall
  \/ \E i \in 1..MaxExchanges : LockAcquired(i)
  \/ \E n \in 1..MaxClients : DeviceAnswers(n)
  \/ \E i \in 1..MaxExchanges : ResponseRead(i)
  \/ \E i \in 1..MaxExchanges : ReadRefused(i)

SpecTcp == TcpInit /\ [][TcpNext]_vars

\* C29: for one device address at most one request/response exchange is in
\* progress at any time, and a call that returns a response returns the one
\* its own request elicited, also with several clients for the address and
\* with connect() replacing the reader and writer during an exchange.
C29_OneExchangeAtATime ==
  /\ Cardinality({i \in 1..Len(tcp.calls) : tcp.calls[i].pc = "reading"}) <= 1
  /\ \A i \in 1..Len(tcp.calls) :
       (tcp.calls[i].pc = "done" /\ tcp.calls[i].got # 0) => tcp.calls[i].got = i

(***************************************************************************)
(* SpecEntity: one AI-setting entity, EmsAiNumberEntity (number.py) or     *)
(* EmsAiSettingSwitch (switch.py).  entity.kind says which, entity.data is *)
(* coordinator.data["ai_settings"], entity.optimistic the value of         *)
(* _optimistic_value / _optimistic_state (<<>> for None, <<v>> for v),     *)
(* entity.read what the last read of native_value / is_on returned.        *)
(* entity.set and entity.delivered record the history the property speaks  *)
(* of: the value the user set last, and whether a coordinator update has   *)
(* since delivered a record whose field equals it.                         *)
(* A JSON value of the record is Num(n), Text(s) or JsonNull.              *)
(***************************************************************************)
Num(n) == [num |-> n]
Text(s) == [text |-> s]
JsonNull == [null |-> TRUE]

\* float(x): a number, or the text of one; ValueError for any other text
IsFloat(x) == "num" \in DOMAIN x \/ ("text" \in DOMAIN x /\ IsInt(x.text))

FloatOf(x) == IF "num" \in DOMAIN x THEN x.num ELSE IntOf(x.text)

\* bool(x)
BoolOf(x) ==
  IF "num" \in DOMAIN x THEN x.num # 0
  ELSE IF "text" \in DOMAIN x THEN x.text # ""
  ELSE FALSE

\* number.py 59 / switch.py 22: one field of each kind
field_key(kind) == IF kind = "number" THEN "minDischargeSOC" ELSE "ctEnable"

\* the values a user sets: a number of the entity's range, or on / off
SetValues(kind) == IF kind = "number" THEN {20, 30} ELSE {FALSE, TRUE}

\* the value _write / async_set_native_value puts in the record:
\* int(value), 1 for on, 0 for off
Written(kind, v) == IF kind = "number" THEN Num(v) ELSE Num(IF v THEN 1 ELSE 0)

\* what the cloud's record can hold in the field
FieldValues(kind) ==
  IF kind = "number"
  THEN {Num(20), Num(30), Text("30"), Text("abc"), JsonNull}
  ELSE {Num(0), Num(1), JsonNull}

\* records with and without the field
EntityRecords(kind) ==
  {[datalogSn |-> Text(DeviceSn)]}
    \cup {Update([datalogSn |-> Text(DeviceSn)], [k \in {field_key(kind)} |-> x]) :
            x \in FieldValues(kind)}

\* what the slow coordinator's read of the AI settings can return
EntityResponses(kind) ==
  {Response("None", EmptyDict), Response("empty", EmptyDict),
   Response("noobj", EmptyDict)}
    \cup {Response("obj", r) : r \in EntityRecords(kind)}

\* number.py 117-122, switch.py 125-130: the record, or None when "obj" is
\* missing or not a dict
_get_ai_obj(ai) ==
  IF ai.kind = "obj" THEN [is_dict |-> TRUE, obj |-> ai.obj]
  ELSE [is_dict |-> FALSE]

\* obj.get(field_key): None for a missing key and for null
api_val_of(obj, kind) == Get(obj, field_key(kind), JsonNull)

\* number.py 131-144
native_value(e) ==
  IF e.optimistic # <<>> THEN e.optimistic
  ELSE LET o == _get_ai_obj(e.data)
       IN  IF ~o.is_dict THEN <<>>
           ELSE LET val == api_val_of(o.obj, "number")
                IN  IF val = JsonNull THEN <<>>
                    ELSE IF IsFloat(val) THEN <<FloatOf(val)>>
                    ELSE <<>>

\* switch.py 139-147
is_on(e) ==
  IF e.optimistic # <<>> THEN e.optimistic
  ELSE LET o == _get_ai_obj(e.data)
       IN  IF ~o.is_dict THEN <<>>
           ELSE LET val == api_val_of(o.obj, "switch")
                IN  IF val = JsonNull THEN <<>> ELSE <<BoolOf(val)>>

\* a read of the entity's value
Reported(e) == IF e.kind = "number" THEN native_value(e) ELSE is_on(e)

\* number.py 156-171: the override after a coordinator update
Number_handle_coordinator_update(optimistic, ai) ==
  IF optimistic = <<>> THEN <<>>
  ELSE LET o == _get_ai_obj(ai)
       IN  IF ~o.is_dict THEN optimistic
           ELSE LET api_val == api_val_of(o.obj, "number")
                IN  IF api_val = JsonNull THEN optimistic
                    ELSE IF ~IsFloat(api_val) THEN <<>>    \* except (TypeError, ValueError)
                    ELSE IF <<FloatOf(api_val)>> = optimistic THEN <<>>
                    ELSE optimistic

\* switch.py 167-183
Switch_handle_coordinator_update(optimistic, ai) ==
  IF optimistic = <<>> THEN <<>>
  ELSE LET o == _get_ai_obj(ai)
       IN  IF ~o.is_dict THEN optimistic
           ELSE LET api_val == api_val_of(o.obj, "switch")
                IN  IF api_val # JsonNull /\ <<BoolOf(api_val)>> = optimistic
                    THEN <<>>
                    ELSE optimistic

\* the delivered record's field equals v
FieldEquals(kind, ai, v) ==
  LET o == _get_ai_obj(ai)
  IN  /\ o.is_dict
      /\ LET api_val == api_val_of(o.obj, kind)
         IN  /\ api_val # JsonNull
             /\ IF kind = "number"
                THEN IsFloat(api_val) /\ FloatOf(api_val) = v
                ELSE BoolOf(api_val) = v

EntityUnchanged == UNCHANGED <<hubVars, hass, opt, args, ret, tcp>>

\* number.py 146-154, switch.py 149-165: the override is set and the record
\* is written; on success hub.py 246-255 puts the written value into the
\* cached record, which is the object coordinator.data refers to
SetValue(v, ok) ==
  /\ v \in SetValues(entity.kind)
  /\ entity' = [entity EXCEPT
       !.optimistic = <<v>>,
       !.set = <<v>>,
       !.delivered = FALSE,
       !.data = IF ok /\ entity.data.kind = "obj"
                THEN Response("obj",
                       Update(entity.data.obj,
                              [k \in {field_key(entity.kind)} |-> Written(entity.kind, v)]))
                ELSE entity.data]
  /\ EntityUnchanged

\* the slow coordinator delivers the result of its read
CoordinatorUpdate(resp) ==
  /\ resp \in EntityResponses(entity.kind)
  /\ LET ai == CoordinatorView(resp).ai_settings
     IN  entity' = [entity EXCEPT
           !.data = ai,
           !.optimistic = IF entity.kind = "number"
                          THEN Number_handle_coordinator_update(entity.optimistic, ai)
                          ELSE Switch_handle_coordinator_update(entity.optimistic, ai),
           !.delivered = \/ entity.delivered
                         \/ /\ entity.set # <<>>
                            /\ FieldEquals(entity.kind, ai, entity.set[1])]
  /\ EntityUnchanged

\* Home Assistant reads native_value / is_on
Read ==
  /\ entity' = [entity EXCEPT !.read = Reported(entity)]
  /\ EntityUnchanged

EntityInit ==
  /\ HubInit
  /\ main_control_device_id = DeviceSn
  /\ cache = Response("obj", DeviceRecord)
  /\ hass = HassIdle
  /\ opt = NotRun
  /\ args = NoArgs
  /\ ret = NotReturned
  /\ tcp = TcpIdle
  /\ \E kind \in {"number", "switch"} : \E resp \in EntityResponses(kind) :
       entity = [EntityIdle EXCEPT !.kind = kind,
                                   !.data = CoordinatorView(resp).ai_settings]

EntityNext ==
  \/ \E v \in SetValues(entity.kind), ok \in BOOLEAN : SetValue(v, ok)
  \/ \E resp \in EntityResponses(entity.kind) : CoordinatorUpdate(resp)
  \/ Read

SpecEntity == EntityInit /\ [][EntityNext]_vars

\* C30: after the user sets an AI-setting number to v (or turns an
\* AI-setting switch on or off), every read of the entity returns that value
\* until a coordinator update delivers a record whose field equals it (an
\* update that carries another value does not make the entity revert), and
\* once such a record has been delivered the optimistic override is cleared,
\* so that the entity reports the record's value.
C30_OptimisticUntilConfirmed ==
  /\ (entity.set # <<>> /\ ~entity.delivered) => Reported(entity) = entity.set
  /\ (entity.set # <<>> /\ entity.delivered) => entity.optimistic = <<>>

====
